---- MODULE Spec2Model ----
(***************************************************************************)
(* A model of render/render.py: the pixel shader (shade), the layer        *)
(* renderer (render_layer) and the depth-peeled mesh compositor            *)
(* (render_mesh, composite_buffer), with the process-wide seed counter     *)
(* rnd_seed.                                                               *)
(*                                                                         *)
(* Tensors are modelled by what the claims read of them: their channel     *)
(* count (last dimension), their spatial size, or, for compositing, the    *)
(* fixed-point value of one pixel.                                         *)
(***************************************************************************)
EXTENDS Integers, Sequences, FiniteSets, TLC

\* ---------------------------------------------------------------- bounds
\* The seed counter is a Python int (unbounded); calls are guarded so that it
\* stays at most MaxSeed.
MaxSeed == 3
\* render_mesh's num_layers ranges over 0..MaxLayers.
MaxLayers == 3

\* ------------------------------------------------------------ shade inputs
None == "None"

OptixTags == {"pbr-optix", "diffuse-optix", "white-optix"}

AnalyticTags == {"pbr", "diffuse"}

DebugTags == {"radiance", "normal", "tangent", "corr", "kd", "ks"}

KnownTags == OptixTags \cup AnalyticTags \cup DebugTags

\* "bogus" stands for every string shade's if/elif chain does not name.
AllTags == KnownTags \cup {"bogus"}

\* The concrete class of lgt: the two light variants, and anything else.
Lights == {"EnvironmentLight", "EnvironmentLightOptix", "Other"}

\* isinstance(lgt, light.EnvironmentLight): the two variants are distinct classes.
IsEnvironmentLight(lgt) == lgt = "EnvironmentLight"

\* isinstance(lgt, light.EnvironmentLightOptix)
IsEnvironmentLightOptix(lgt) == lgt = "EnvironmentLightOptix"

\* The channel keys of a material that shade looks at.
ChannelKeys == {"kd_ks_normal", "radiance", "kd", "ks", "normal"}

\* ------------------------------------------------------- tensor channels
\* torch.cat((a, b), dim=-1) on the channel counts.
Cat(a, b) == a + b

\* x[..., :-6] of a tensor with ch channels.
AllButLast6(ch) == IF ch > 6 THEN ch - 6 ELSE 0

\* x[..., 0:3] of a tensor with ch channels.
First3(ch) == IF ch < 3 THEN ch ELSE 3

\* ------------------------------------------------------- material sampling
\* Which of the three branches of lines 61-91 runs.
ShadeBranchSwapped(keys) ==
    IF "radiance" \in keys THEN "radiance"
    ELSE IF "kd_ks_normal" \in keys THEN "combined"
    ELSE "classic"

ShadeBranch(keys) ==
    IF "kd_ks_normal" \in keys THEN "combined"
    ELSE IF "radiance" \in keys THEN "radiance"
    ELSE "classic"

\* The channel counts a sampler of the branch may return: the combined MLP 9 or
\* 10 (8 is the malformed output the assertion of line 67 rejects), the radiance
\* MLP RGB, the kd texture RGB or RGBA.
SamplerChannels(branch) ==
    IF branch = "combined" THEN {8, 9, 10}
    ELSE IF branch = "radiance" THEN {3}
    ELSE {3, 4}

\* Lines 60-91: the samplers called (in `sampled`), the channel counts of kd
\* (before line 95 cuts it to 3), ks, kd_grad and ks_grad, and the error raised,
\* if any. ch is the channel count of the branch's sampler output; the ks
\* texture is cut to its first 3 channels in lines 85 and 87.
SampleMaterial(keys, ch) ==
    LET branch == ShadeBranch(keys) IN
    IF branch = "combined" THEN
        [branch |-> branch, sampled |-> {"kd_ks_normal"},
         err |-> IF ch = 9 \/ ch = 10 THEN "ok" ELSE "AssertionError: channels",
         kd |-> AllButLast6(ch), ks |-> 3,
         kd_grad |-> AllButLast6(ch), ks_grad |-> 3]
    ELSE IF branch = "radiance" THEN
        [branch |-> branch, sampled |-> {"radiance"}, err |-> "ok",
         kd |-> ch, ks |-> ch, kd_grad |-> ch, ks_grad |-> ch]
    ELSE IF "kd" \notin keys THEN
        [branch |-> branch, sampled |-> {}, err |-> "KeyError",
         kd |-> 0, ks |-> 0, kd_grad |-> 0, ks_grad |-> 0]
    ELSE IF "ks" \notin keys THEN
        [branch |-> branch, sampled |-> {"kd"}, err |-> "KeyError",
         kd |-> 0, ks |-> 0, kd_grad |-> 0, ks_grad |-> 0]
    ELSE
        [branch |-> branch,
         sampled |-> {"kd", "ks"} \cup (keys \cap {"normal"}), err |-> "ok",
         kd |-> ch, ks |-> 3, kd_grad |-> First3(ch), ks_grad |-> 3]

\* Line 94: alpha is kd's 4th channel when kd has 4 channels, else a ones tensor
\* shaped like kd[..., 0:1].
AlphaNoDefault(kdCh) == IF kdCh = 4 THEN 1 ELSE 0

AlphaChannels(kdCh) ==
    IF kdCh = 4 THEN 1 ELSE IF kdCh < 1 THEN kdCh ELSE 1

\* ----------------------------------------------------------- BSDF dispatch
\* Line 119.
EffectiveBsdf(mbsdf, bsdf) == IF bsdf = None THEN mbsdf ELSE bsdf

\* Lines 120-145, the OptiX arm: the assertion of line 123 comes before the
\* integrator call of line 127 and the increment of line 130.
OptixArmSeedFirst(lgt, ctx) ==
    IF IsEnvironmentLightOptix(lgt) /\ ctx THEN
        [err |-> "ok", integrator |-> TRUE, shaded |-> 3]
    ELSE
        [err |-> "AssertionError: light", integrator |-> TRUE, shaded |-> 0]

OptixArm(lgt, ctx) ==
    IF IsEnvironmentLightOptix(lgt) /\ ctx THEN
        [err |-> "ok", integrator |-> TRUE, shaded |-> 3]
    ELSE
        [err |-> "AssertionError: light", integrator |-> FALSE, shaded |-> 0]

\* Lines 146-155, the arms of 'pbr' and 'diffuse'.
AnalyticArmUnchecked(lgt) ==
    [err |-> "ok", integrator |-> FALSE, shaded |-> 3]

AnalyticArm(lgt) ==
    IF IsEnvironmentLight(lgt) THEN
        [err |-> "ok", integrator |-> FALSE, shaded |-> 3]
    ELSE
        [err |-> "AssertionError: Invalid light type",
         integrator |-> FALSE, shaded |-> 0]

\* Lines 118-169: the error raised ("ok" if none), whether optix_env_shade was
\* called, and the channel count of shaded_col. kd and ks are the channel counts
\* after line 95; canoSet says whether cano_pos is a tensor at line 163.
Dispatch(mbsdf, bsdf, lgt, ctx, kd, ks, canoSet) ==
    LET tag == EffectiveBsdf(mbsdf, bsdf) IN
    IF mbsdf = None /\ bsdf = None THEN
        [err |-> "AssertionError: no bsdf", integrator |-> FALSE, shaded |-> 0]
    ELSE IF tag \in OptixTags THEN OptixArm(lgt, ctx)
    ELSE IF tag \in AnalyticTags THEN AnalyticArm(lgt)
    ELSE IF tag = "radiance" THEN
        [err |-> "ok", integrator |-> FALSE, shaded |-> kd]
    ELSE IF tag \in {"normal", "tangent"} THEN
        [err |-> "ok", integrator |-> FALSE, shaded |-> 3]
    ELSE IF tag = "corr" THEN
        [err |-> IF canoSet THEN "ok" ELSE "AttributeError",
         integrator |-> FALSE, shaded |-> 3]
    ELSE IF tag = "kd" THEN
        [err |-> "ok", integrator |-> FALSE, shaded |-> kd]
    ELSE IF tag = "ks" THEN
        [err |-> "ok", integrator |-> FALSE, shaded |-> ks]
    ELSE
        [err |-> "AssertionError: Invalid BSDF", integrator |-> FALSE, shaded |-> 0]

\* Line 130: the counter after a shade invocation.
NextSeedStuck(seed, integrator) == seed

NextSeed(seed, integrator) == IF integrator THEN seed + 1 ELSE seed

\* The errors of the BSDF dispatch (lines 118, 123, 150, 155, 169).
BsdfConfigErrors ==
    {"AssertionError: no bsdf", "AssertionError: light",
     "AssertionError: Invalid light type", "AssertionError: Invalid BSDF"}

\* ------------------------------------------------------------ the buffers
BaseBufferKeys ==
    {"shaded", "kd_grad", "ks_grad", "normal_grad", "occlusion", "gb_pos", "gb_normal"}

LightBufferKeys == {"diffuse_light", "specular_light"}

\* Lines 172-186: the channel count of each buffer of the mapping. gb_pos,
\* gb_normal, nrm_grad and the integrator's two results are 3-channel tensors.
Buffers(shaded, kd_grad, ks_grad, ks, alpha, integrator) ==
    [k \in BaseBufferKeys \cup (IF integrator THEN LightBufferKeys ELSE {}) |->
        CASE k = "shaded"      -> Cat(shaded, alpha)
          [] k = "kd_grad"     -> Cat(kd_grad, alpha)
          [] k = "ks_grad"     -> Cat(ks_grad, alpha)
          [] k = "normal_grad" -> Cat(3, alpha)
          [] k = "occlusion"   -> Cat(IF ks < 1 THEN ks ELSE 1, alpha)
          [] k = "gb_pos"      -> Cat(3, alpha)
          [] k = "gb_normal"   -> Cat(3, alpha)
          [] OTHER             -> Cat(3, alpha)]

NoBuffers == [k \in {} |-> 0]

\* ------------------------------------------------------------------ shade
\* One shade invocation (lines 30-187) on the inputs
\*   keys   the channel keys present in material
\*   mbsdf  material['bsdf'], None when the key is absent
\*   bsdf   the override argument, None when not given
\*   lgt    the class of the light, ctx whether optix_ctx is not None
\*   den    whether denoiser is not None, cano whether cano_pos is not None
\*   ch     the channel count the branch's sampler returns
\* The result: the first error raised ("ok" when shade returns), the samplers
\* called before it, whether optix_env_shade was called and with how many
\* samples, and the mapping returned.
Shade(in) ==
    LET s == SampleMaterial(in.keys, in.ch)
        canoSet == in.cano \/ (s.branch \in {"combined", "radiance"})
        d == Dispatch(in.mbsdf, in.bsdf, in.lgt, in.ctx, First3(s.kd), s.ks, canoSet)
        err == IF s.err # "ok" THEN s.err ELSE d.err
        integrator == s.err = "ok" /\ d.integrator
    IN  [err |-> err,
         returned |-> err = "ok",
         branch |-> s.branch,
         sampled |-> s.sampled,
         integrator |-> integrator,
         n_samples_x |-> IF integrator THEN (IF in.den THEN 8 ELSE 64) ELSE 0,
         buffers |-> IF err = "ok"
                     THEN Buffers(d.shaded, s.kd_grad, s.ks_grad, s.ks,
                                  AlphaChannels(s.kd), integrator)
                     ELSE NoBuffers]

\* --------------------------------------------------------------- the state
VARIABLES
    rnd_seed,   \* the module global of line 18
    pc,         \* where the process is: "idle", "shaded" after a direct shade
                \* call, or a position inside render_mesh
    sin,        \* the inputs of the last shade invocation
    sout,       \* its result (Shade), with the seed before it
    intSeeds,   \* history: the rnd_seed argument of every optix_env_shade call
    call,       \* the arguments of the running render_mesh call
    seed0,      \* history: rnd_seed when the running render_mesh call began
    peelerOpen, \* whether the process is inside the `with dr.DepthPeeler` block
    trace,      \* history: the peeler and render_layer events of the running call
    layers,     \* the local list `layers` of render_mesh
    visits,     \* history: per buffer key, the layers composite_buffer visited
    outcome,    \* "none", "ok" with out_buffers returned, or the error raised
    \* composite_buffer on one pixel (SpecComposite)
    cPc,        \* "build", "called", "loop", "antialias" or "done"
    cLayers,    \* the layers argument: per layer, the pixel of rast and of buffers[key]
    cBg,        \* the background argument at the pixel
    cAA,        \* the antialias argument
    cIdx,       \* the position of the loop of line 314 in cLayers
    cAccum,     \* the local accum at the pixel
    \* tensor sizes in render_mesh (SpecSize)
    zPc,        \* "idle", or a position inside render_mesh
    zIn,        \* resolution, spp, msaa, the size of background, num_layers
    zLayers,    \* per layer, the spatial size of its buffers and of its rast
    zBg,        \* the spatial size of the prepared background
    zOut        \* the spatial size of the returned buffers, or the error raised

ctlVars ==
    <<rnd_seed, pc, sin, sout, intSeeds, call, seed0, peelerOpen, trace, layers,
      visits, outcome>>

compVars == <<cPc, cLayers, cBg, cAA, cIdx, cAccum>>

sizeVars == <<zPc, zIn, zLayers, zBg, zOut>>

vars == <<ctlVars, compVars, sizeVars>>

NoInput ==
    [keys |-> {}, mbsdf |-> None, bsdf |-> None, lgt |-> "Other", ctx |-> FALSE,
     den |-> FALSE, cano |-> FALSE, ch |-> 0]

NoResult ==
    [err |-> "none", returned |-> FALSE, branch |-> "none", sampled |-> {},
     integrator |-> FALSE, n_samples_x |-> 0, buffers |-> NoBuffers,
     seedBefore |-> 0]

NoCall ==
    [batch |-> 0, tris |-> 0, attrs |-> FALSE, background |-> "none",
     num_layers |-> 0, shade |-> NoInput]

CtlInit ==
    /\ rnd_seed = 0
    /\ pc = "idle"
    /\ sin = NoInput
    /\ sout = NoResult
    /\ intSeeds = <<>>
    /\ call = NoCall
    /\ seed0 = 0
    /\ peelerOpen = FALSE
    /\ trace = <<>>
    /\ layers = <<>>
    /\ visits = NoBuffers
    /\ outcome = "none"

callVars == <<call, seed0, peelerOpen, trace, layers, visits, outcome>>

\* ------------------------------------------------------ direct shade calls
\* The material's 'bsdf' entry: absent, or one tag of each kind.
MaterialBsdfs == {None, "pbr-optix", "diffuse", "kd", "bogus"}

ShadeInputs ==
    {in \in [keys : SUBSET ChannelKeys, mbsdf : MaterialBsdfs,
             bsdf : {None} \cup AllTags, lgt : Lights, ctx : BOOLEAN,
             den : BOOLEAN, cano : BOOLEAN, ch : 3..10] :
        in.ch \in SamplerChannels(ShadeBranch(in.keys))}

\* What one shade invocation does to the state: lines 30-187, with the seed
\* passed in line 129 and the increment of line 130.
InvokeShade(in) ==
    LET r == Shade(in) IN
    /\ sin' = in
    /\ sout' = r @@ [seedBefore |-> rnd_seed]
    /\ intSeeds' = IF r.integrator THEN Append(intSeeds, rnd_seed) ELSE intSeeds
    /\ rnd_seed' = NextSeed(rnd_seed, r.integrator)

\* A caller other than render_layer invokes shade.
ShadeCall ==
    /\ pc = "idle"
    /\ rnd_seed < MaxSeed
    /\ \E in \in ShadeInputs : InvokeShade(in)
    /\ pc' = "shaded"
    /\ UNCHANGED callVars

\* The caller takes the mapping (or the exception) and the process goes on.
ShadeDone ==
    /\ pc = "shaded"
    /\ pc' = "idle"
    /\ sin' = NoInput
    /\ sout' = NoResult
    /\ UNCHANGED <<rnd_seed, intSeeds>>
    /\ UNCHANGED callVars

\* ------------------------------------------------------------- render_mesh
\* One representative key set per material branch.
RenderKeys == {{"kd_ks_normal"}, {"radiance"}, {"kd", "ks"}}

RenderShadeInputs ==
    {in \in [keys : RenderKeys, mbsdf : {None, "pbr"},
             bsdf : {None} \cup AllTags, lgt : Lights, ctx : BOOLEAN,
             den : {FALSE}, cano : {FALSE}, ch : {3, 4, 9, 10}] :
        in.ch \in SamplerChannels(ShadeBranch(in.keys))}

\* mesh.t_pos_idx has shape [batch, tris, 3]; attrs says whether v_nrm, v_tng and
\* v_tex are present; background is None, of the target resolution, or not.
RenderInputs ==
    [batch : 0..1, tris : 0..1, attrs : BOOLEAN,
     background : {"none", "match", "mismatch"},
     num_layers : 0..MaxLayers, shade : RenderShadeInputs]

\* Line 322: mesh.t_pos_idx.shape[0] > 0.
MeshAssertion(c) == c.batch > 0

\* Lines 322-332: the two assertions, then the clip-space transform.
RenderMeshCall ==
    /\ pc = "idle"
    /\ \E c \in RenderInputs :
        /\ c.batch = 0 => c.tris = 0
        /\ rnd_seed + c.num_layers <= MaxSeed
        /\ call' = c
        /\ IF ~MeshAssertion(c)
           THEN pc' = "raised" /\ outcome' = "AssertionError: empty mesh"
           ELSE IF c.background = "mismatch"
           THEN pc' = "raised" /\ outcome' = "AssertionError: background"
           ELSE pc' = "entered" /\ outcome' = "none"
    /\ seed0' = rnd_seed
    /\ UNCHANGED <<rnd_seed, sin, sout, intSeeds, peelerOpen, trace, layers, visits>>

\* Line 336: the with statement opens the depth peeler.
OpenPeeler ==
    /\ pc = "entered"
    /\ pc' = "loop"
    /\ peelerOpen' = TRUE
    /\ trace' = Append(trace, <<"open", 0>>)
    /\ UNCHANGED <<rnd_seed, sin, sout, intSeeds, call, seed0, layers, visits, outcome>>

\* The number of rasterize_next_layer calls made so far in the running call.
Peeled == Cardinality({i \in 1..Len(trace) : trace[i][1] = "peel"})

\* Line 338: the next peel. The rasterizer is an external collaborator; on a
\* triangle tensor without rows it may raise or return an empty rasterization.
RasterizeNextLayer ==
    /\ pc = "loop"
    /\ Len(layers) < call.num_layers
    /\ trace' = Append(trace, <<"peel", Peeled + 1>>)
    /\ \/ /\ pc' = "peeled"
          /\ UNCHANGED <<peelerOpen, outcome>>
       \/ /\ call.tris = 0
          /\ pc' = "raised"
          /\ peelerOpen' = FALSE
          /\ outcome' = "RuntimeError: rasterizer"
    /\ UNCHANGED <<rnd_seed, sin, sout, intSeeds, call, seed0, layers, visits>>

\* Line 339: render_layer (lines 213-282) on the peel just made, and the append
\* to `layers`. An exception leaves the with block, which closes the peeler.
RenderLayer ==
    /\ pc = "peeled"
    /\ IF ~call.attrs
       THEN /\ pc' = "raised"
            /\ outcome' = "AssertionError: mesh attributes"
            /\ peelerOpen' = FALSE
            /\ trace' = Append(trace, <<"render", Peeled>>)
            /\ UNCHANGED <<rnd_seed, sin, sout, intSeeds, layers>>
       ELSE /\ InvokeShade(call.shade)
            /\ trace' = Append(trace, <<"render", Peeled>>)
            /\ IF Shade(call.shade).returned
               THEN /\ layers' = Append(layers,
                                    [buffers |-> Shade(call.shade).buffers,
                                     rast |-> Peeled])
                    /\ pc' = "loop"
                    /\ UNCHANGED <<peelerOpen, outcome>>
               ELSE /\ pc' = "raised"
                    /\ outcome' = Shade(call.shade).err
                    /\ peelerOpen' = FALSE
                    /\ UNCHANGED layers
    /\ UNCHANGED <<call, seed0, visits>>

\* Line 337 when range(num_layers) is exhausted: the with block ends.
ClosePeeler ==
    /\ pc = "loop"
    /\ Len(layers) = call.num_layers
    /\ pc' = "closed"
    /\ peelerOpen' = FALSE
    /\ trace' = Append(trace, <<"close", 0>>)
    /\ UNCHANGED <<rnd_seed, sin, sout, intSeeds, call, seed0, layers, visits, outcome>>

\* Lines 342-347.
SetupBackground ==
    /\ pc = "closed"
    /\ pc' = "composite"
    /\ UNCHANGED <<rnd_seed, sin, sout, intSeeds, callVars>>

\* Line 314: the order in which composite_buffer visits a list of n layers.
CompositeOrderForward(n) == [i \in 1..n |-> i]

CompositeOrder(n) == [i \in 1..n |-> n + 1 - i]

\* Lines 350-360: layers[0] of an empty list raises; else every key of the first
\* layer's mapping is composited over all layers and the mapping is returned.
Composite ==
    /\ pc = "composite"
    /\ IF Len(layers) = 0
       THEN /\ pc' = "raised"
            /\ outcome' = "IndexError"
            /\ UNCHANGED visits
       ELSE /\ visits' = [k \in DOMAIN layers[1].buffers |->
                            [i \in 1..Len(layers) |->
                                layers[CompositeOrder(Len(layers))[i]].rast]]
            /\ pc' = "returned"
            /\ outcome' = "ok"
    /\ UNCHANGED <<rnd_seed, sin, sout, intSeeds, call, seed0, peelerOpen, trace, layers>>

\* The caller takes out_buffers (or the exception) and the process goes on.
RenderMeshDone ==
    /\ pc \in {"returned", "raised"}
    /\ pc' = "idle"
    /\ sin' = NoInput
    /\ sout' = NoResult
    /\ call' = NoCall
    /\ seed0' = 0
    /\ trace' = <<>>
    /\ layers' = <<>>
    /\ visits' = NoBuffers
    /\ outcome' = "none"
    /\ UNCHANGED <<rnd_seed, intSeeds, peelerOpen>>

\* ------------------------------------------- composite_buffer on one pixel
\* Pixel values are fixed-point numbers with denominator One: v stands for v/One.
One == 2

Colours == {0, One}

\* A pixel of a 4-channel buffer: one colour channel (the blend of line 316 is
\* elementwise) and the alpha channel.
Pixels == [c : Colours, a : 0..One]

\* A layer at the pixel: cov is rast[..., -1] > 0, buf the pixel of buffers[key].
LayerPixels == [cov : BOOLEAN, buf : Pixels]

\* torch.lerp(start, end, weight) in fixed point, rounding down:
\* start + weight * (end - start) when weight < 1/2, else
\* end - (end - start) * (1 - weight).
Lerp(start, end, weight) ==
    IF 2 * weight < One
    THEN start + (weight * (end - start)) \div One
    ELSE end - ((end - start) * (One - weight)) \div One

\* Line 315: alpha = (rast[..., -1:] > 0).float() * buffers[key][..., -1:].
LayerAlphaNoCoverage(l) == l.buf.a

LayerAlpha(l) == ((IF l.cov THEN One ELSE 0) * l.buf.a) \div One

\* Lines 315-316: one iteration of the loop, before the antialiasing.
Blend(accum, l) ==
    [c |-> Lerp(accum.c, l.buf.c, LayerAlpha(l)),
     a |-> Lerp(accum.a, One, LayerAlpha(l))]

RECURSIVE CompositeFrom(_, _, _)
\* The loop of lines 314-318 without antialiasing, from position i down to 1.
CompositeFrom(ls, accum, i) ==
    IF i = 0 THEN accum ELSE CompositeFrom(ls, Blend(accum, ls[i]), i - 1)

RECURSIVE CompositeForwardFrom(_, _, _)
CompositeForwardFrom(ls, accum, i) ==
    IF i > Len(ls) THEN accum
    ELSE CompositeForwardFrom(ls, Blend(accum, ls[i]), i + 1)

CompositeBufferForward(ls, background) == CompositeForwardFrom(ls, background, 1)

\* composite_buffer(key, layers, background, False), lines 312-319.
CompositeBuffer(ls, background) == CompositeFrom(ls, background, Len(ls))

CompInit ==
    /\ cPc = "build"
    /\ cLayers = <<>>
    /\ cBg = [c |-> 0, a |-> 0]
    /\ cAA = FALSE
    /\ cIdx = 0
    /\ cAccum = [c |-> 0, a |-> 0]

\* Line 339 at the pixel: one more (buffers, rast) pair in the list.
CompPeel ==
    /\ cPc = "build"
    /\ Len(cLayers) < MaxLayers
    /\ \E l \in LayerPixels : cLayers' = Append(cLayers, l)
    /\ UNCHANGED <<cPc, cBg, cAA, cIdx, cAccum>>

\* A call composite_buffer(key, layers, background, False) as a whole.
CompositeAux ==
    /\ cPc = "build"
    /\ \E bg \in Pixels :
        /\ cBg' = bg
        /\ cAccum' = CompositeBuffer(cLayers, bg)
    /\ cAA' = FALSE
    /\ cIdx' = 0
    /\ cPc' = "done"
    /\ UNCHANGED cLayers

\* Line 353 and line 313: composite_buffer('shaded', layers, background, True);
\* the alpha of the background is 0 (lines 345 and 347).
CompositeShadedCall ==
    /\ cPc = "build"
    /\ \E bg \in Pixels :
        /\ bg.a = 0
        /\ cBg' = bg
        /\ cAccum' = bg
    /\ cAA' = TRUE
    /\ cIdx' = Len(cLayers)
    /\ cPc' = "loop"
    /\ UNCHANGED cLayers

\* Lines 315-316 of the iteration at cIdx.
CompositeShadedBlend ==
    /\ cPc = "loop"
    /\ cIdx >= 1
    /\ cAccum' = Blend(cAccum, cLayers[cIdx])
    /\ cPc' = "antialias"
    /\ UNCHANGED <<cLayers, cBg, cAA, cIdx>>

\* Lines 317-318: dr.antialias is an external filter; at the pixel it may
\* return any value.
CompositeShadedAntialias ==
    /\ cPc = "antialias"
    /\ \E p \in Pixels : cAccum' = p
    /\ cIdx' = cIdx - 1
    /\ cPc' = "loop"
    /\ UNCHANGED <<cLayers, cBg, cAA>>

\* Line 319.
CompositeShadedReturn ==
    /\ cPc = "loop"
    /\ cIdx = 0
    /\ cPc' = "done"
    /\ UNCHANGED <<cLayers, cBg, cAA, cIdx, cAccum>>

\* ------------------------------------------------- tensor sizes (SpecSize)
MaxRes == 2

MaxSpp == 2

Sizes == (1..MaxRes) \X (1..MaxRes)

\* Lines 213 and 325: full_res.
FullResSquare(resolution, spp) == <<resolution[1] * spp, resolution[1] * spp>>

FullRes(resolution, spp) == <<resolution[1] * spp, resolution[2] * spp>>

\* util.scale_img_nhwc(x, size, ...): the result has spatial size `size`.
ScaleImg(x, size) == size

\* util.avg_pool_nhwc(x, spp): pooling with window and stride spp.
AvgPool(x, spp) == <<x[1] \div spp, x[2] \div spp>>

\* Lines 220-225 and 233-270: the size at which the layer is shaded.
ShadingSize(rast, resolution, spp, msaa) ==
    IF spp > 1 /\ msaa THEN ScaleImg(rast, resolution) ELSE rast

\* Lines 277-282: the size of the buffers render_layer returns.
LayerBufferSize(rast, resolution, spp, msaa) ==
    IF spp > 1 /\ msaa
    THEN ScaleImg(ShadingSize(rast, resolution, spp, msaa), FullRes(resolution, spp))
    ELSE ShadingSize(rast, resolution, spp, msaa)

\* Lines 342-347: the size of the background the compositing starts from.
BackgroundSize(background, resolution, spp) ==
    IF background.given
    THEN (IF spp > 1 THEN ScaleImg(background.size, FullRes(resolution, spp))
          ELSE background.size)
    ELSE FullRes(resolution, spp)

\* Whether two spatial sizes broadcast in an elementwise operation.
Broadcastable(x, y) ==
    \A d \in 1..2 : x[d] = y[d] \/ x[d] = 1 \/ y[d] = 1

\* The spatial size of the result of an elementwise operation.
Broadcast(x, y) == [d \in 1..2 |-> IF x[d] = 1 THEN y[d] ELSE x[d]]

\* background = None.
NoBackground == [given |-> FALSE, size |-> <<0, 0>>]

NoOut == [status |-> "none", size |-> <<0, 0>>]

SizeInit ==
    /\ zPc = "idle"
    /\ zIn = [resolution |-> <<1, 1>>, spp |-> 1, msaa |-> FALSE,
              background |-> NoBackground, num_layers |-> 0]
    /\ zLayers = <<>>
    /\ zBg = <<0, 0>>
    /\ zOut = NoOut

SizeInputs ==
    [resolution : Sizes, spp : 1..MaxSpp, msaa : BOOLEAN,
     background : {NoBackground} \cup [given : {TRUE}, size : Sizes],
     num_layers : 1..MaxLayers]

\* Lines 323-332.
SizeCall ==
    /\ zPc = "idle"
    /\ \E in \in SizeInputs :
        /\ zIn' = in
        /\ IF ~in.background.given \/ in.background.size = in.resolution
           THEN zPc' = "loop" /\ zOut' = NoOut
           ELSE /\ zPc' = "raised"
                /\ zOut' = [status |-> "AssertionError: background", size |-> <<0, 0>>]
    /\ zLayers' = <<>>
    /\ zBg' = <<0, 0>>

\* Lines 336-339: one peel at full_res, and render_layer on it.
SizePeelAndRender ==
    /\ zPc = "loop"
    /\ Len(zLayers) < zIn.num_layers
    /\ LET rast == FullRes(zIn.resolution, zIn.spp) IN
        zLayers' = Append(zLayers,
            [buf |-> LayerBufferSize(rast, zIn.resolution, zIn.spp, zIn.msaa),
             rast |-> rast])
    /\ UNCHANGED <<zPc, zIn, zBg, zOut>>

\* Lines 342-347.
SizeBackground ==
    /\ zPc = "loop"
    /\ Len(zLayers) = zIn.num_layers
    /\ zBg' = BackgroundSize(zIn.background, zIn.resolution, zIn.spp)
    /\ zPc' = "composite"
    /\ UNCHANGED <<zIn, zLayers, zOut>>

RECURSIVE CompositeSize(_, _, _)
\* Lines 313-319 on sizes: the blend of line 316 is elementwise over accum,
\* buffers[key] and alpha (of the size of rast); "error" when they do not
\* broadcast.
CompositeSize(ls, accum, i) ==
    IF i = 0 THEN [ok |-> TRUE, size |-> accum]
    ELSE IF Broadcastable(ls[i].rast, ls[i].buf)
            /\ Broadcastable(accum, Broadcast(ls[i].rast, ls[i].buf))
    THEN CompositeSize(ls, Broadcast(accum, Broadcast(ls[i].rast, ls[i].buf)), i - 1)
    ELSE [ok |-> FALSE, size |-> accum]

\* Line 358.
PoolSize(accum, spp) == IF spp > 1 THEN AvgPool(accum, spp) ELSE accum

\* Lines 350-360 for one key: 'shaded' starts from the background, the other
\* keys from zeros shaped like the first layer's buffer.
SizeComposite ==
    /\ zPc = "composite"
    /\ \E shaded \in BOOLEAN :
        LET start == IF shaded THEN zBg ELSE zLayers[1].buf
            accum == CompositeSize(zLayers, start, Len(zLayers))
        IN  IF ~accum.ok
            THEN /\ zPc' = "raised"
                 /\ zOut' = [status |-> "RuntimeError: shapes", size |-> <<0, 0>>]
            ELSE /\ zPc' = "returned"
                 /\ zOut' = [status |-> "ok", size |-> PoolSize(accum.size, zIn.spp)]
    /\ UNCHANGED <<zIn, zLayers, zBg>>

SizeDone ==
    /\ zPc \in {"returned", "raised"}
    /\ zPc' = "idle"
    /\ zOut' = NoOut
    /\ zLayers' = <<>>
    /\ zBg' = <<0, 0>>
    /\ zIn' = [resolution |-> <<1, 1>>, spp |-> 1, msaa |-> FALSE,
               background |-> NoBackground, num_layers |-> 0]

\* ---------------------------------------------------------- specifications
Init == CtlInit /\ CompInit /\ SizeInit

\* The process: shade and render_mesh calls, one after the other.
Next ==
    \/ ShadeCall /\ UNCHANGED <<compVars, sizeVars>>
    \/ ShadeDone /\ UNCHANGED <<compVars, sizeVars>>
    \/ RenderMeshCall /\ UNCHANGED <<compVars, sizeVars>>
    \/ OpenPeeler /\ UNCHANGED <<compVars, sizeVars>>
    \/ RasterizeNextLayer /\ UNCHANGED <<compVars, sizeVars>>
    \/ RenderLayer /\ UNCHANGED <<compVars, sizeVars>>
    \/ ClosePeeler /\ UNCHANGED <<compVars, sizeVars>>
    \/ SetupBackground /\ UNCHANGED <<compVars, sizeVars>>
    \/ Composite /\ UNCHANGED <<compVars, sizeVars>>
    \/ RenderMeshDone /\ UNCHANGED <<compVars, sizeVars>>

Spec == Init /\ [][Next]_vars

\* composite_buffer at one pixel.
NextComposite ==
    \/ CompPeel /\ UNCHANGED <<ctlVars, sizeVars>>
    \/ CompositeAux /\ UNCHANGED <<ctlVars, sizeVars>>
    \/ CompositeShadedCall /\ UNCHANGED <<ctlVars, sizeVars>>
    \/ CompositeShadedBlend /\ UNCHANGED <<ctlVars, sizeVars>>
    \/ CompositeShadedAntialias /\ UNCHANGED <<ctlVars, sizeVars>>
    \/ CompositeShadedReturn /\ UNCHANGED <<ctlVars, sizeVars>>

SpecComposite == Init /\ [][NextComposite]_vars

\* The tensor sizes of render_mesh.
NextSize ==
    \/ SizeCall /\ UNCHANGED <<ctlVars, compVars>>
    \/ SizePeelAndRender /\ UNCHANGED <<ctlVars, compVars>>
    \/ SizeBackground /\ UNCHANGED <<ctlVars, compVars>>
    \/ SizeComposite /\ UNCHANGED <<ctlVars, compVars>>
    \/ SizeDone /\ UNCHANGED <<ctlVars, compVars>>

SpecSize == Init /\ [][NextSize]_vars

\* ================================================================ claims
\* The effective tag of a shade input (line 119).
TagOf(in) == EffectiveBsdf(in.mbsdf, in.bsdf)

\* A shade input whose tag is unknown, or needs another light than the one given.
Rejected(in) ==
    /\ ~(in.mbsdf = None /\ in.bsdf = None)
    /\ \/ TagOf(in) \notin KnownTags
       \/ TagOf(in) \in OptixTags /\ ~(in.lgt = "EnvironmentLightOptix" /\ in.ctx)
       \/ TagOf(in) \in AnalyticTags /\ in.lgt # "EnvironmentLight"

InRenderMesh == pc \notin {"idle", "shaded"}

\* C1: a shade invocation with an unknown BSDF tag, or with a tag that needs
\* another light variant than the one supplied, raises and returns no mapping;
\* a render_mesh call with such arguments never gets a layer and never returns
\* out_buffers, whatever the material branch and the number of layers.
C1_MismatchFailsFast ==
    /\ (sout.err # "none" /\ Rejected(sin)) =>
          /\ sout.err \notin {"ok", "none"}
          /\ ~sout.returned
          /\ DOMAIN sout.buffers = {}
    /\ (InRenderMesh /\ Rejected(call.shade)) =>
          /\ Len(layers) = 0
          /\ outcome # "ok"
          /\ DOMAIN visits = {}
          /\ pc # "returned"

C1_Witness ==
    /\ pc = "raised"
    /\ call.num_layers = 2
    /\ TagOf(call.shade) = "pbr-optix"
    /\ call.shade.lgt = "EnvironmentLight"
    /\ sout.err = "AssertionError: light"
    /\ outcome = "AssertionError: light"

\* C2: a render_mesh call on a mesh with batch size >= 1 and no triangle rows
\* is aborted by the empty-mesh assertion: nothing of the call happens but that
\* error, the peeler is never opened and the seed counter is untouched.
C2_EmptyMeshAborts ==
    (InRenderMesh /\ call.batch >= 1 /\ call.tris = 0) =>
        /\ pc = "raised"
        /\ outcome = "AssertionError: empty mesh"
        /\ trace = <<>>
        /\ ~peelerOpen
        /\ rnd_seed = seed0

\* Whether the last shade invocation took an OptiX path and got past line 123.
ReachedIntegrator == TagOf(sin) \in OptixTags /\ sout.err = "ok"

C3_State ==
    /\ \A i, j \in 1..Len(intSeeds) : i # j => intSeeds[i] # intSeeds[j]
    /\ sout.err # "none" =>
          rnd_seed = sout.seedBefore + (IF ReachedIntegrator THEN 1 ELSE 0)
    /\ pc = "returned" =>
          rnd_seed = seed0 + (IF TagOf(call.shade) \in OptixTags
                              THEN call.num_layers ELSE 0)

C3_Step ==
    /\ rnd_seed' >= rnd_seed
    /\ rnd_seed' <= rnd_seed + 1
    /\ rnd_seed' - rnd_seed = Len(intSeeds') - Len(intSeeds)

\* C3: rnd_seed never decreases; a shade invocation that takes an OptiX path and
\* reaches the integrator adds exactly 1 to it, every other step leaves it as it
\* is; no two integrator calls get the same seed; a render_mesh call that
\* returns after n layers on an OptiX path has added exactly n.
C3_SeedCounter == []C3_State /\ [][C3_Step]_vars

C3_Witness ==
    /\ pc = "returned"
    /\ call.num_layers = 2
    /\ TagOf(call.shade) \in OptixTags
    /\ seed0 = 1
    /\ rnd_seed = 3
    /\ intSeeds = <<0, 1, 2>>

\* The events of a render_mesh call that peels and renders n layers.
ExpectedTrace(n) ==
    <<<<"open", 0>>>>
    \o [i \in 1..(2 * n) |->
          IF i % 2 = 1 THEN <<"peel", (i + 1) \div 2>> ELSE <<"render", i \div 2>>]
    \o <<<<"close", 0>>>>

\* C4: a render_mesh call that returns with num_layers >= 1 has opened one
\* peeler scope, peeled num_layers times inside it, rendered each peel before the
\* next one was requested, holds the layers in peel order, and composited every
\* key after the scope was closed, visiting the layers in reverse peel order;
\* every peel is made with the peeler open, and compositing never starts before
\* the last peel.
C4_PeelOrder ==
    /\ pc = "peeled" => peelerOpen
    /\ pc \in {"closed", "composite", "returned"} =>
          ~peelerOpen /\ Peeled = call.num_layers
    /\ (pc = "returned" /\ call.num_layers >= 1) =>
          /\ trace = ExpectedTrace(call.num_layers)
          /\ Len(layers) = call.num_layers
          /\ \A i \in 1..Len(layers) : layers[i].rast = i
          /\ \A k \in DOMAIN visits :
                visits[k] = [i \in 1..call.num_layers |-> call.num_layers + 1 - i]
          /\ DOMAIN visits = DOMAIN layers[1].buffers

C4_Witness ==
    /\ pc = "returned"
    /\ call.num_layers = 2
    /\ visits["shaded"] = <<2, 1>>
    /\ layers[1].rast = 1 /\ layers[2].rast = 2

\* The channel counts of a returned mapping, given the input of the invocation.
ChannelsAsCoded(in, bufs) ==
    \A k \in DOMAIN bufs :
        bufs[k] = IF k = "occlusion" THEN 2
                  ELSE IF k = "kd_grad" /\ "kd_ks_normal" \in in.keys /\ in.ch = 10
                  THEN 5
                  ELSE 4

AllFourChannels(bufs) == \A k \in DOMAIN bufs : bufs[k] = 4

\* C8 as stated: every buffer of every mapping shade returns has exactly 4
\* channels.
C8_AllBuffersFourChannels ==
    /\ sout.returned => AllFourChannels(sout.buffers)
    /\ \A i \in 1..Len(layers) : AllFourChannels(layers[i].buffers)

\* C8 amended: every buffer of every mapping shade returns has exactly 4
\* channels, except occlusion, which has 2 (one channel of ks and alpha), and
\* kd_grad when the combined MLP returns 10 channels, which has 5; the mapping
\* has the seven base keys, and the two light keys exactly on an OptiX path.
C8_ChannelCounts ==
    /\ sout.returned =>
          /\ ChannelsAsCoded(sin, sout.buffers)
          /\ DOMAIN sout.buffers =
                BaseBufferKeys \cup
                (IF TagOf(sin) \in OptixTags THEN LightBufferKeys ELSE {})
    /\ \A i \in 1..Len(layers) : ChannelsAsCoded(call.shade, layers[i].buffers)

C8_Witness ==
    /\ pc = "shaded"
    /\ sout.returned
    /\ sin.keys = {"kd_ks_normal"}
    /\ sin.ch = 10
    /\ TagOf(sin) = "pbr-optix"
    /\ sout.buffers["kd_grad"] = 5
    /\ sout.buffers["occlusion"] = 2
    /\ sout.buffers["shaded"] = 4
    /\ sout.buffers["specular_light"] = 4

\* C5: compositing is associative front to back: without antialiasing,
\* composite_buffer over the whole layer list from a background equals
\* composite_buffer over its first k layers started from the composite of the
\* remaining layers over that background; for [A, B, C] and k = 2, the
\* composite of [A, B] over C blended alone onto the background.
C5_CompositeAssociative ==
    (cPc = "done" /\ ~cAA) =>
        \A k \in 0..Len(cLayers) :
            cAccum = CompositeBuffer(SubSeq(cLayers, 1, k),
                        CompositeBuffer(SubSeq(cLayers, k + 1, Len(cLayers)), cBg))

C5_Witness ==
    /\ cPc = "done"
    /\ ~cAA
    /\ Len(cLayers) = 3
    /\ \A i \in 1..3 : cLayers[i].cov /\ cLayers[i].buf.a = 1
    /\ cLayers[1].buf.c = One /\ cLayers[2].buf.c = 0 /\ cLayers[3].buf.c = One
    /\ cBg = [c |-> 0, a |-> 1]
    /\ cAccum = CompositeBuffer(<<cLayers[1], cLayers[2]>>, Blend(cBg, cLayers[3]))

\* C6: with one layer whose buffer alpha is 1, the 'shaded' composite before
\* the antialiasing has, at a pixel the layer covers, the layer's colour and
\* alpha 1 whatever the background, and at a pixel it does not cover, the
\* background's colour and alpha 0.
C6_SingleOpaqueLayer ==
    (cAA /\ cPc = "antialias" /\ Len(cLayers) = 1 /\ cLayers[1].buf.a = One) =>
        IF cLayers[1].cov
        THEN cAccum = [c |-> cLayers[1].buf.c, a |-> One]
        ELSE cAccum = [c |-> cBg.c, a |-> 0]

C6_Witness ==
    /\ cAA
    /\ cPc = "antialias"
    /\ Len(cLayers) = 1
    /\ cLayers[1] = [cov |-> TRUE, buf |-> [c |-> 0, a |-> One]]
    /\ cBg = [c |-> One, a |-> 0]
    /\ cAccum = [c |-> 0, a |-> One]

\* C7: every render_mesh call that passes the background check returns buffers
\* of spatial size `resolution`, for every spp and with MSAA on or off: every
\* layer is rasterized at resolution*spp and its buffers are of that size (after
\* shading at `resolution` when spp > 1 and MSAA is on), the composite is of that
\* size, and the pool by spp brings it to `resolution`.
C7_OutputResolution ==
    /\ zOut.status # "RuntimeError: shapes"
    /\ \A i \in 1..Len(zLayers) :
          /\ zLayers[i].rast = <<zIn.resolution[1] * zIn.spp, zIn.resolution[2] * zIn.spp>>
          /\ zLayers[i].buf = zLayers[i].rast
    /\ zPc = "composite" => zBg = <<zIn.resolution[1] * zIn.spp, zIn.resolution[2] * zIn.spp>>
    /\ zPc = "returned" => zOut.status = "ok" /\ zOut.size = zIn.resolution

C7_Witness ==
    /\ zPc = "returned"
    /\ zIn.resolution = <<1, 2>>
    /\ zIn.spp = 2
    /\ zIn.msaa
    /\ zIn.background.given
    /\ zIn.num_layers = 2
    /\ zOut.size = <<1, 2>>

HasCompleteBranch(keys) ==
    "kd_ks_normal" \in keys \/ "radiance" \in keys \/ {"kd", "ks"} \subseteq keys

\* C9: a shade invocation on a material with at least one complete branch calls
\* the samplers of exactly one branch: the combined MLP when 'kd_ks_normal' is
\* present, else the radiance MLP when 'radiance' is present, else the kd and ks
\* textures (and the normal texture when present); never a sampler of another
\* branch.
C9_OneBranch ==
    (sout.err # "none" /\ HasCompleteBranch(sin.keys)) =>
        IF "kd_ks_normal" \in sin.keys
        THEN sout.sampled = {"kd_ks_normal"} /\ sout.branch = "combined"
        ELSE IF "radiance" \in sin.keys
        THEN sout.sampled = {"radiance"} /\ sout.branch = "radiance"
        ELSE /\ sout.sampled = {"kd", "ks"} \cup (sin.keys \cap {"normal"})
             /\ sout.branch = "classic"

C9_Witness ==
    /\ pc = "shaded"
    /\ sin.keys = {"kd_ks_normal", "radiance", "kd", "ks"}
    /\ sout.sampled = {"kd_ks_normal"}

\* C10: a render_mesh call with num_layers >= 1 that raises one of the errors of
\* the BSDF dispatch raised it in its first layer and leaves rnd_seed, and the
\* seeds handed to the integrator, as they were when the call began.
C10_FailedDispatchKeepsSeed ==
    (pc = "raised" /\ call.num_layers >= 1 /\ outcome \in BsdfConfigErrors) =>
        /\ rnd_seed = seed0
        /\ Len(layers) = 0
        /\ Peeled = 1
        /\ Len(intSeeds) = seed0

C10_Witness ==
    /\ pc = "raised"
    /\ call.num_layers = 2
    /\ outcome = "AssertionError: light"
    /\ TagOf(call.shade) \in OptixTags
    /\ seed0 = 1
    /\ rnd_seed = 1

====
